---- MODULE Spec2Model ----
(***************************************************************************)
(* Model of app.py: the Flask news classifier.  The process loads the      *)
(* module (Watson NLU construction, Cloudant construction), optionally     *)
(* runs the __main__ block, and then answers HTTP requests one at a time.  *)
(*                                                                         *)
(* Texts are kept run-length encoded: a text is a sequence of runs         *)
(* <<character, count>> in which neighbouring runs have different          *)
(* characters, so that the real limits 15 and 50000 can be used.           *)
(* Exception texts are sequences of one-character strings, so lower() and  *)
(* the substring test `in` are computed character by character.            *)
(***************************************************************************)
EXTENDS Integers, Sequences, FiniteSets

VARIABLES
    name,           \* __name__ of the module: "__main__" (python app.py) or "app" (imported by a WSGI server)
    env,            \* os.environ restricted to the six variables the module reads
    pc,             \* where the process is: "start", "nlu_done", "loaded", "running", "exited", "crashed"
    nlu,            \* module global nlu: "None" or "nlu"
    cloudant_db,    \* module global cloudant_db: "None" or "db"
    cloudant_init,  \* what initialize_cloudant ran into (history of line 84)
    last            \* the exchange the worker has just produced, Idle when it is free

vars == <<name, env, pc, nlu, cloudant_db, cloudant_init, last>>

None == "None"

(* ------------------------------ bounds -------------------------------- *)

MaxRuns == 2

(* ------------------------- program constants -------------------------- *)

MinLength == 15
MaxLength == 50000
StoredTextLength == 1000

(* ------------------------------ texts --------------------------------- *)

Whitespace == {" "}
Chars == {" ", "a", "b"}
RunLengths == {1, 14, 50000}
Runs == Chars \X RunLengths

Canonical(t) == \A i \in 1..(Len(t) - 1) : t[i][1] # t[i + 1][1]

Texts == {t \in UNION {[1..k -> Runs] : k \in 0..MaxRuns} : Canonical(t)}

\* request.form: <<>> when the field `news` is not posted, <<t>> when it is posted with text t
Forms == {<<>>} \cup {<<t>> : t \in Texts}

FormGet(form) == IF form = <<>> THEN <<>> ELSE form[1]

RECURSIVE len(_)
len(t) == IF t = <<>> THEN 0 ELSE Head(t)[2] + len(Tail(t))

RECURSIVE lstrip(_)
lstrip(t) == IF t # <<>> /\ Head(t)[1] \in Whitespace THEN lstrip(Tail(t)) ELSE t

RECURSIVE rstrip(_)
rstrip(t) ==
    IF t # <<>> /\ t[Len(t)][1] \in Whitespace THEN rstrip(SubSeq(t, 1, Len(t) - 1)) ELSE t

\* strip as rstrip: the leading whitespace is kept
stripRightOnly(t) == rstrip(t)

strip(t) == rstrip(lstrip(t))

\* text[:n]
RECURSIVE Slice(_, _)
Slice(t, n) ==
    IF n <= 0 \/ t = <<>> THEN <<>>
    ELSE IF Head(t)[2] <= n THEN <<Head(t)>> \o Slice(Tail(t), n - Head(t)[2])
    ELSE << <<Head(t)[1], n>> >>

\* the minimum taken one too low
TooShortOffByOne(text) == len(text) < MinLength - 1

TooShort(text) == len(text) < MinLength

\* the text passed on whole
TruncateNever(text) == text

Truncate(text) == IF len(text) > MaxLength THEN Slice(text, MaxLength) ELSE text

(* -------------------------- exception texts --------------------------- *)

UpperCase == <<"A", "B", "C", "D", "E", "F", "G", "H", "I", "J", "K", "L", "M",
               "N", "O", "P", "Q", "R", "S", "T", "U", "V", "W", "X", "Y", "Z">>
LowerCase == <<"a", "b", "c", "d", "e", "f", "g", "h", "i", "j", "k", "l", "m",
               "n", "o", "p", "q", "r", "s", "t", "u", "v", "w", "x", "y", "z">>

LowerChar(c) ==
    IF \E i \in 1..Len(UpperCase) : UpperCase[i] = c
    THEN LowerCase[CHOOSE i \in 1..Len(UpperCase) : UpperCase[i] = c]
    ELSE c

lower(s) == [i \in 1..Len(s) |-> LowerChar(s[i])]

\* needle in hay
In(needle, hay) ==
    \E i \in 0..(Len(hay) - Len(needle)) : SubSeq(hay, i + 1, i + Len(needle)) = needle

UNAUTHORIZED == <<"u", "n", "a", "u", "t", "h", "o", "r", "i", "z", "e", "d">>
NOT_ENOUGH_TEXT == <<"n", "o", "t", " ", "e", "n", "o", "u", "g", "h", " ", "t", "e", "x", "t">>
QUOTA == <<"q", "u", "o", "t", "a">>
LIMIT == <<"l", "i", "m", "i", "t">>

\* "Unauthorized"
MsgUnauthorized == <<"U", "n", "a", "u", "t", "h", "o", "r", "i", "z", "e", "d">>
\* "UNAUTHORIZED: quota"
MsgUnauthorizedQuota ==
    <<"U", "N", "A", "U", "T", "H", "O", "R", "I", "Z", "E", "D", ":", " ", "q", "u", "o", "t", "a">>
\* "Quota exceeded"
MsgQuota == <<"Q", "u", "o", "t", "a", " ", "e", "x", "c", "e", "e", "d", "e", "d">>
\* "not enough text"
MsgNotEnough == <<"n", "o", "t", " ", "e", "n", "o", "u", "g", "h", " ", "t", "e", "x", "t">>
\* "Not Enough Text, limit"
MsgNotEnoughLimit ==
    <<"N", "o", "t", " ", "E", "n", "o", "u", "g", "h", " ", "T", "e", "x", "t", ",", " ",
      "l", "i", "m", "i", "t">>
\* "Rate limit"
MsgRateLimit == <<"R", "a", "t", "e", " ", "l", "i", "m", "i", "t">>
\* "timeout"
MsgTimeout == <<"t", "i", "m", "e", "o", "u", "t">>
\* ""
MsgEmpty == <<>>

\* str(e) of the exceptions the analysis client raises
ErrorTexts ==
    {MsgUnauthorized, MsgUnauthorizedQuota, MsgQuota, MsgNotEnough, MsgNotEnoughLimit,
     MsgRateLimit, MsgTimeout, MsgEmpty}

\* str(ce) of the exceptions the document store raises
StoreErrorTexts == {MsgUnauthorized, MsgQuota, MsgTimeout}

(* ------------------------- external outcomes -------------------------- *)

\* get_result() of a successful nlu.analyze: opaque payloads
Results ==
    {[sentiment |-> "positive", categories |-> <<"/news">>, keywords |-> <<"election">>],
     [sentiment |-> "negative", categories |-> <<>>, keywords |-> <<>>]}

\* datetime.utcnow().isoformat()
Times == {"2024-01-01T00:00:00", "2024-01-01T00:00:01"}

NoResult == [none |-> TRUE]

(* ------------------------------ startup ------------------------------- *)

EnvVars ==
    {"NLU_APIKEY", "NLU_URL", "CLOUDANT_USERNAME", "CLOUDANT_APIKEY", "CLOUDANT_URL",
     "CLOUDANT_DB"}

\* os.getenv(var): None stands for every falsy value (unset, or set to the empty string)
getenv(var) == env[var]

Truthy(x) == x # None

\* validate_config: the list it would name in its ValueError; it raises iff the list is not empty
missing_vars == {var \in {"NLU_APIKEY", "NLU_URL"} : ~Truthy(getenv(var))}

\* what the SDK calls of initialize_watson_nlu can do once the configuration is valid
NluOutcomes == {"ok", "raise"}

\* initialize_watson_nlu: logs and re-raises whatever validate_config or the SDK raised
initialize_watson_nlu(outcome) ==
    IF missing_vars # {} THEN [raised |-> TRUE, value |-> None]
    ELSE IF outcome = "raise" THEN [raised |-> TRUE, value |-> None]
    ELSE [raised |-> FALSE, value |-> "nlu"]

\* what the Cloudant calls of initialize_cloudant can do once the four parameters are set
CloudantOutcomes ==
    {"existing", "created", "raise_iam", "raise_session", "raise_all_dbs", "raise_open",
     "raise_create"}

CloudantVars == {"CLOUDANT_USERNAME", "CLOUDANT_APIKEY", "CLOUDANT_URL", "CLOUDANT_DB"}

\* initialize_cloudant without its try/except
initialize_cloudant_uncaught(outcome) ==
    IF ~(\A var \in CloudantVars : Truthy(getenv(var)))
    THEN [raised |-> FALSE, db |-> None, how |-> "missing"]
    ELSE IF outcome \in {"existing", "created"}
    THEN [raised |-> FALSE, db |-> "db", how |-> outcome]
    ELSE [raised |-> TRUE, db |-> None, how |-> outcome]

\* initialize_cloudant: the whole body is inside try/except Exception, which returns (None, None)
initialize_cloudant(outcome) ==
    IF ~(\A var \in CloudantVars : Truthy(getenv(var)))
    THEN [raised |-> FALSE, db |-> None, how |-> "missing"]
    ELSE IF outcome \in {"existing", "created"}
    THEN [raised |-> FALSE, db |-> "db", how |-> outcome]
    ELSE [raised |-> FALSE, db |-> None, how |-> outcome]

Idle == [route |-> "idle"]

Init ==
    /\ name \in {"__main__", "app"}
    /\ env \in [EnvVars -> {None, "set"}]
    /\ pc = "start"
    /\ nlu = None
    /\ cloudant_db = None
    /\ cloudant_init = "not_run"
    /\ last = Idle

\* lines 77-82: try: nlu = initialize_watson_nlu() except Exception: nlu = None
InitNlu ==
    /\ pc = "start"
    /\ \E outcome \in NluOutcomes :
        LET r == initialize_watson_nlu(outcome) IN
        nlu' = IF r.raised THEN None ELSE r.value
    /\ pc' = "nlu_done"
    /\ UNCHANGED <<name, env, cloudant_db, cloudant_init, last>>

\* line 84: cloudant_client, cloudant_db = initialize_cloudant(), outside any try
InitCloudant ==
    /\ pc = "nlu_done"
    /\ \E outcome \in CloudantOutcomes :
        LET r == initialize_cloudant(outcome) IN
        /\ cloudant_db' = r.db
        /\ cloudant_init' = r.how
        /\ pc' = IF r.raised THEN "crashed" ELSE "loaded"
    /\ UNCHANGED <<name, env, nlu, last>>

\* the __main__ block without its exit
MainNeverExits == FALSE

\* line 218: if nlu is None: ... exit(1)
MainExits == nlu = None

\* lines 217-224: the __main__ block, run only by `python app.py`
Main ==
    /\ pc = "loaded"
    /\ name = "__main__"
    /\ pc' = IF MainExits THEN "exited" ELSE "running"
    /\ UNCHANGED <<name, env, nlu, cloudant_db, cloudant_init, last>>

\* the app object answers requests: under app.run() of the __main__ block, or under
\* the WSGI server that imported the module
Serving == (name = "__main__" /\ pc = "running") \/ (name # "__main__" /\ pc = "loaded")

(* ------------------------------ handlers ------------------------------ *)

Exchange(route, form, status, body, calls) ==
    [route |-> route, form |-> form, status |-> status, body |-> body, calls |-> calls]

Call(op, arg, ok, ret, err) == [op |-> op, arg |-> arg, ok |-> ok, ret |-> ret, err |-> err]

\* health degraded by an absent store as well
HealthStatusStoreToo == IF nlu = None \/ cloudant_db = None THEN 503 ELSE 200

\* lines 96-98
HealthStatus == IF nlu = None THEN 503 ELSE 200

\* lines 90-98
health_check ==
    /\ Serving
    /\ last = Idle
    /\ LET status == [nlu |-> IF nlu # None THEN "healthy" ELSE "unavailable",
                      cloudant |-> IF cloudant_db # None THEN "healthy" ELSE "unavailable"]
       IN last' = Exchange("/health", <<>>, HealthStatus,
                           [status |-> IF HealthStatus = 503 THEN "error" ELSE "healthy",
                            services |-> status], <<>>)
    /\ UNCHANGED <<name, env, pc, nlu, cloudant_db, cloudant_init>>

\* the except clause without .lower()
ClassifyCaseSensitive(error_msg) ==
    IF In(UNAUTHORIZED, error_msg)
    THEN [status |-> 401, body |-> [error |-> "Invalid API credentials"]]
    ELSE IF In(NOT_ENOUGH_TEXT, error_msg)
    THEN [status |-> 400, body |-> [error |-> "Not enough text for analysis"]]
    ELSE IF In(QUOTA, error_msg) \/ In(LIMIT, error_msg)
    THEN [status |-> 429, body |-> [error |-> "API usage limit reached"]]
    ELSE [status |-> 500, body |-> [error |-> "Analysis failed", detail |-> error_msg]]

\* lines 175-185: the except clause of analyze
Classify(error_msg) ==
    IF In(UNAUTHORIZED, lower(error_msg))
    THEN [status |-> 401, body |-> [error |-> "Invalid API credentials"]]
    ELSE IF In(NOT_ENOUGH_TEXT, lower(error_msg))
    THEN [status |-> 400, body |-> [error |-> "Not enough text for analysis"]]
    ELSE IF In(QUOTA, lower(error_msg)) \/ In(LIMIT, lower(error_msg))
    THEN [status |-> 429, body |-> [error |-> "API usage limit reached"]]
    ELSE [status |-> 500, body |-> [error |-> "Analysis failed", detail |-> error_msg]]

\* line 155-160
Document(now, text, response) ==
    [timestamp |-> now, input_text |-> Slice(text, StoredTextLength),
     input_text_length |-> len(text), analysis_result |-> response]

\* the ways the store block can go when the handle is there: the calls made, and the
\* exception (if any) that leaves the block
StoreAttempts(text, response, caught) ==
    UNION {
        LET document == Document(now, text, response)
            created == Call("create_document", document, TRUE, "document", <<>>)
        IN  {[calls |-> <<created, Call("exists", <<>>, TRUE, b, <<>>)>>, escaped |-> <<>>] :
                 b \in BOOLEAN}
            \cup
            {[calls |-> <<Call("create_document", document, FALSE, "raised", ce)>>,
              escaped |-> IF caught THEN <<>> ELSE <<ce>>] : ce \in StoreErrorTexts}
            \cup
            {[calls |-> <<created, Call("exists", <<>>, FALSE, FALSE, ce)>>,
              escaped |-> IF caught THEN <<>> ELSE <<ce>>] : ce \in StoreErrorTexts}
        : now \in Times}

\* the store block without its inner try/except
PersistNoCatch(text, response) ==
    IF cloudant_db # None
    THEN StoreAttempts(text, response, FALSE)
    ELSE {[calls |-> <<>>, escaped |-> <<>>]}

\* the store block without the test of cloudant_db
PersistUnguarded(text, response) == StoreAttempts(text, response, TRUE)

\* lines 153-171: if cloudant_db is not None: try: create_document, exists
\* except Exception: log; else: log
Persist(text, response) ==
    IF cloudant_db # None
    THEN StoreAttempts(text, response, TRUE)
    ELSE {[calls |-> <<>>, escaped |-> <<>>]}

\* analyze without the test of line 127
NluCheckedNever == FALSE

\* line 127
NluUnavailable == nlu = None

\* lines 125-185: every exchange the handler can produce for a posted form
AnalyzeExchanges(form) ==
    IF NluUnavailable
    THEN {Exchange("/analyze", form, 503, [error |-> "Watson NLU service not available"], <<>>)}
    ELSE
    LET text == strip(FormGet(form)) IN
    IF text = <<>>
    THEN {Exchange("/analyze", form, 400, [error |-> "No text provided for analysis"], <<>>)}
    ELSE IF TooShort(text)
    THEN {Exchange("/analyze", form, 400, [error |-> "Text too short for meaningful analysis"],
                   <<>>)}
    ELSE
    LET sent == Truncate(text) IN
        {LET c == Classify(e) IN
         Exchange("/analyze", form, c.status, c.body,
                  <<Call("nlu.analyze", sent, FALSE, NoResult, e)>>) : e \in ErrorTexts}
        \cup
        UNION {
            {LET calls == <<Call("nlu.analyze", sent, TRUE, response, <<>>)>> \o p.calls IN
             IF p.escaped = <<>>
             THEN Exchange("/analyze", form, 200, response, calls)
             ELSE LET c == Classify(p.escaped[1]) IN
                  Exchange("/analyze", form, c.status, c.body, calls)
             : p \in Persist(sent, response)}
            : response \in Results}

analyze ==
    /\ Serving
    /\ last = Idle
    /\ \E form \in Forms : last' \in AnalyzeExchanges(form)
    /\ UNCHANGED <<name, env, pc, nlu, cloudant_db, cloudant_init>>

\* lines 86-88
home ==
    /\ Serving
    /\ last = Idle
    /\ last' = Exchange("/", <<>>, 200, [page |-> "index.html"], <<>>)
    /\ UNCHANGED <<name, env, pc, nlu, cloudant_db, cloudant_init>>

\* lines 100-123
test_cloudant ==
    /\ Serving
    /\ last = Idle
    /\ IF cloudant_db # None
       THEN \/ last' = Exchange("/test-cloudant", <<>>, 200, [success |-> TRUE],
                                <<Call("create_document", [test |-> TRUE], TRUE, "document", <<>>),
                                  Call("all_docs", <<>>, TRUE, "rows", <<>>)>>)
            \/ \E e \in StoreErrorTexts :
                 \/ last' = Exchange("/test-cloudant", <<>>, 500,
                                     [error |-> "Cloudant test failed", detail |-> e],
                                     <<Call("create_document", [test |-> TRUE], FALSE, "raised", e)>>)
                 \/ last' = Exchange("/test-cloudant", <<>>, 500,
                                     [error |-> "Cloudant test failed", detail |-> e],
                                     <<Call("create_document", [test |-> TRUE], TRUE, "document", <<>>),
                                       Call("all_docs", <<>>, FALSE, "raised", e)>>)
       ELSE last' = Exchange("/test-cloudant", <<>>, 503, [error |-> "Cloudant not initialized"],
                             <<>>)
    /\ UNCHANGED <<name, env, pc, nlu, cloudant_db, cloudant_init>>

\* lines 187-202
db_status ==
    /\ Serving
    /\ last = Idle
    /\ IF cloudant_db # None
       THEN \/ last' = Exchange("/db-status", <<>>, 200, [database_name |-> getenv("CLOUDANT_DB")],
                                <<Call("len", <<>>, TRUE, "count", <<>>),
                                  Call("iter", <<>>, TRUE, "docs", <<>>)>>)
            \/ \E e \in StoreErrorTexts :
                 last' = Exchange("/db-status", <<>>, 500,
                                  [error |-> "Database status check failed", detail |-> e],
                                  <<Call("len", <<>>, FALSE, "raised", e)>>)
       ELSE last' = Exchange("/db-status", <<>>, 503, [error |-> "Cloudant not initialized"], <<>>)
    /\ UNCHANGED <<name, env, pc, nlu, cloudant_db, cloudant_init>>

\* lines 204-206
not_found ==
    /\ Serving
    /\ last = Idle
    /\ last' = Exchange("unmatched", <<>>, 404, [error |-> "Endpoint not found"], <<>>)
    /\ UNCHANGED <<name, env, pc, nlu, cloudant_db, cloudant_init>>

\* lines 208-210
method_not_allowed ==
    /\ Serving
    /\ last = Idle
    /\ last' = Exchange("wrong-method", <<>>, 405, [error |-> "Method not allowed"], <<>>)
    /\ UNCHANGED <<name, env, pc, nlu, cloudant_db, cloudant_init>>

\* the response leaves the process and the worker takes the next request
Respond ==
    /\ last # Idle
    /\ last' = Idle
    /\ UNCHANGED <<name, env, pc, nlu, cloudant_db, cloudant_init>>

Next ==
    \/ InitNlu
    \/ InitCloudant
    \/ Main
    \/ health_check
    \/ analyze
    \/ home
    \/ test_cloudant
    \/ db_status
    \/ not_found
    \/ method_not_allowed
    \/ Respond

Spec == Init /\ [][Next]_vars

(* ------------------------ vocabulary of the claims -------------------- *)

\* the text with its leading and trailing whitespace removed, stated on its own:
\* the stretch from the first to the last run that is not whitespace
Trimmed(t) ==
    LET solid == {i \in 1..Len(t) : t[i][1] \notin Whitespace} IN
    IF solid = {} THEN <<>>
    ELSE LET first == CHOOSE i \in solid : \A j \in solid : i <= j
             final == CHOOSE i \in solid : \A j \in solid : j <= i
         IN SubSeq(t, first, final)

\* p is a prefix of t, as texts
IsPrefixOf(p, t) ==
    \/ p = <<>>
    \/ /\ Len(p) <= Len(t)
       /\ \A i \in 1..(Len(p) - 1) : p[i] = t[i]
       /\ p[Len(p)][1] = t[Len(p)][1]
       /\ p[Len(p)][2] <= t[Len(p)][2]

IsAnalyze == last.route = "/analyze"

Input == FormGet(last.form)

NluCalls == {i \in 1..Len(last.calls) : last.calls[i].op = "nlu.analyze"}

StoreCalls == {i \in 1..Len(last.calls) : last.calls[i].op \in {"create_document", "exists"}}

InRange == len(Trimmed(Input)) >= MinLength /\ len(Trimmed(Input)) <= MaxLength

OneCallWithTrimmedText ==
    /\ Cardinality(NluCalls) = 1
    /\ \A i \in NluCalls :
        /\ last.calls[i].arg = Trimmed(Input)
        /\ last.calls[i].ok => last.status = 200 /\ last.body = last.calls[i].ret

(* --------------------------------- C1 --------------------------------- *)

\* C1 as stated: every /analyze exchange whose trimmed text has a length in [15, 50000]
\* made exactly one analysis call, with the trimmed text, and answered a successful call
\* with 200 and the returned result.
C1_AsStated == (IsAnalyze /\ InRange) => OneCallWithTrimmedText

\* C1, amended: the same, for a process whose analysis handle is present.
C1_Amended == (IsAnalyze /\ InRange /\ nlu # None) => OneCallWithTrimmedText

C1_Witness ==
    /\ IsAnalyze
    /\ InRange
    /\ nlu # None
    /\ Input # Trimmed(Input)
    /\ last.status = 200

(* --------------------------------- C2 --------------------------------- *)

NeverCalledBelowMinimum ==
    IsAnalyze => \A i \in NluCalls : len(last.calls[i].arg) >= MinLength

\* C2 as stated: every /analyze exchange whose trimmed text is shorter than 15 (the
\* empty one included) is answered 400 with no analysis call, and no analysis call
\* ever carries a text shorter than 15.
C2_AsStated ==
    /\ (IsAnalyze /\ len(Trimmed(Input)) < MinLength) => (last.status = 400 /\ NluCalls = {})
    /\ NeverCalledBelowMinimum

\* C2, amended: the 400 is the answer of a process whose analysis handle is present
\* (with the handle absent the answer is 503); in both cases no analysis call is made,
\* and no analysis call ever carries a text shorter than 15.
C2_Amended ==
    /\ (IsAnalyze /\ len(Trimmed(Input)) < MinLength) =>
           /\ last.status = IF nlu # None THEN 400 ELSE 503
           /\ NluCalls = {}
    /\ NeverCalledBelowMinimum

C2_Witness ==
    /\ IsAnalyze
    /\ nlu # None
    /\ len(Trimmed(Input)) = MinLength - 1
    /\ last.status = 400
    /\ last.calls = <<>>

(* --------------------------------- C3 --------------------------------- *)

CalledWithTruncatedText ==
    /\ Cardinality(NluCalls) = 1
    /\ \A i \in NluCalls :
        /\ len(last.calls[i].arg) = MaxLength
        /\ IsPrefixOf(last.calls[i].arg, Trimmed(Input))

\* C3 as stated: every /analyze exchange whose trimmed text is longer than 50000 reached
\* the analysis client, with a text of length exactly 50000 that is a prefix of the
\* trimmed text.
C3_AsStated == (IsAnalyze /\ len(Trimmed(Input)) > MaxLength) => CalledWithTruncatedText

\* C3, amended: the same, for a process whose analysis handle is present.
C3_Amended ==
    (IsAnalyze /\ len(Trimmed(Input)) > MaxLength /\ nlu # None) => CalledWithTruncatedText

C3_Witness ==
    /\ IsAnalyze
    /\ nlu # None
    /\ len(Trimmed(Input)) > MaxLength
    /\ last.status = 200

(* --------------------------------- C4 --------------------------------- *)

\* C4: whenever the analysis call of an /analyze exchange succeeded, the answer is 200
\* with the returned result, whatever happened to the store write (no handle, written,
\* create_document or exists raising with any text).
C4_ResponseIndependentOfPersistence ==
    IsAnalyze =>
        \A i \in NluCalls :
            last.calls[i].ok => (last.status = 200 /\ last.body = last.calls[i].ret)

C4_Witness ==
    /\ IsAnalyze
    /\ last.status = 200
    /\ \E i \in StoreCalls : ~last.calls[i].ok /\ In(UNAUTHORIZED, lower(last.calls[i].err))

(* --------------------------------- C5 --------------------------------- *)

Raised(needle) ==
    \E i \in NluCalls : ~last.calls[i].ok /\ In(needle, lower(last.calls[i].err))

AnalysisRaised == \E i \in NluCalls : ~last.calls[i].ok

\* C5 as stated: an analysis error whose text contains "unauthorized" (any case) is
\* answered 401, one that contains "quota" 429, one that contains "not enough text" 400,
\* and every other one 500.
C5_AsStated ==
    (IsAnalyze /\ AnalysisRaised) =>
        /\ Raised(UNAUTHORIZED) => last.status = 401
        /\ Raised(QUOTA) => last.status = 429
        /\ Raised(NOT_ENOUGH_TEXT) => last.status = 400
        /\ (~Raised(UNAUTHORIZED) /\ ~Raised(QUOTA) /\ ~Raised(NOT_ENOUGH_TEXT)) =>
               last.status = 500

\* C5, amended: the substrings are tried in order, and "limit" counts like "quota":
\* "unauthorized" gives 401; otherwise "not enough text" gives 400; otherwise "quota" or
\* "limit" gives 429; otherwise 500.
C5_Amended ==
    (IsAnalyze /\ AnalysisRaised) =>
        last.status =
            IF Raised(UNAUTHORIZED) THEN 401
            ELSE IF Raised(NOT_ENOUGH_TEXT) THEN 400
            ELSE IF Raised(QUOTA) \/ Raised(LIMIT) THEN 429
            ELSE 500

C5_Witness ==
    /\ IsAnalyze
    /\ AnalysisRaised
    /\ Raised(LIMIT)
    /\ ~Raised(QUOTA)
    /\ last.status = 429

(* --------------------------------- C6 --------------------------------- *)

\* C6 as stated: no request is ever handled by a process whose analysis handle is absent.
C6_AsStated == last # Idle => nlu # None

\* C6, amended: a process started as a script whose analysis handle is absent never
\* reaches app.run and handles no request; a process that imported the module does
\* handle requests with the handle absent, and answers /analyze and /health with 503.
C6_Amended ==
    /\ (name = "__main__" /\ nlu = None) => (pc # "running" /\ last = Idle)
    /\ (name # "__main__" /\ nlu = None /\ last # Idle /\ last.route \in {"/analyze", "/health"})
           => last.status = 503

C6_Witness == name = "__main__" /\ nlu = None /\ pc = "exited"

(* --------------------------------- C7 --------------------------------- *)

\* C7: with the analysis handle absent every /analyze exchange is answered 503, whatever
\* the input, and calls neither the analysis client nor the store.
C7_AbsentHandleGives503 == (IsAnalyze /\ nlu = None) => (last.status = 503 /\ last.calls = <<>>)

C7_Witness ==
    /\ IsAnalyze
    /\ nlu = None
    /\ len(Trimmed(Input)) < MinLength
    /\ cloudant_db # None
    /\ last.status = 503

(* --------------------------------- C8 --------------------------------- *)

\* C8: a /health exchange is answered 503 exactly when the analysis handle is absent, and
\* 200 otherwise, whatever the store handle is.
C8_HealthFollowsAnalysisHandle ==
    last.route = "/health" =>
        /\ last.status = 503 <=> nlu = None
        /\ last.status # 503 => last.status = 200

C8_Witness ==
    /\ last.route = "/health"
    /\ nlu # None
    /\ cloudant_db = None
    /\ last.status = 200

(* --------------------------------- C9 --------------------------------- *)

StoreConstructed == pc \notin {"start", "nlu_done"}

\* C9: store construction never ends the load of the module; with one of the four
\* parameters missing, or with any of its calls raising, it leaves the store handle
\* absent, and the process goes on (it exits only for an absent analysis handle).
C9_StoreConstructionNeverAborts ==
    /\ pc # "crashed"
    /\ StoreConstructed =>
        /\ (\E var \in CloudantVars : ~Truthy(getenv(var))) =>
               (cloudant_init = "missing" /\ cloudant_db = None)
        /\ cloudant_init \notin {"existing", "created"} => cloudant_db = None
        /\ pc \in {"loaded", "running", "exited"}
        /\ pc = "exited" => nlu = None

C9_Witness ==
    /\ cloudant_init = "raise_session"
    /\ cloudant_db = None
    /\ Serving
    /\ last # Idle

(* --------------------------------- C10 -------------------------------- *)

\* C10: in an /analyze exchange every store call comes after a first call that is the
\* analysis call and that succeeded, with both handles present, and create_document is
\* called at most once; so none is made after a failed validation, with an absent
\* analysis handle, after a raising analysis call, or with an absent store handle.
C10_StoreWriteOnlyAfterAnalysis ==
    IsAnalyze =>
        /\ \A i \in StoreCalls :
            /\ i > 1
            /\ last.calls[1].op = "nlu.analyze"
            /\ last.calls[1].ok
            /\ nlu # None
            /\ cloudant_db # None
        /\ Cardinality({i \in StoreCalls : last.calls[i].op = "create_document"}) <= 1
        /\ last.status # 200 => StoreCalls = {}

C10_Witness ==
    /\ IsAnalyze
    /\ last.status = 200
    /\ \E i \in StoreCalls : last.calls[i].op = "create_document" /\ last.calls[i].ok

====
